---- MODULE Spec2Model ----
(***************************************************************************)
(* Model of .github/scripts/pr_review.py: the file filter                  *)
(* (FileFilterConfig), the patch position mapper                           *)
(* (calculate_line_positions, find_closest_line) and the review            *)
(* orchestrator (PRReviewer.run_review) with its two collaborators, the    *)
(* hosting platform and the reviewer.                                      *)
(*                                                                         *)
(* Text is a sequence of one-character strings, so that splitting,         *)
(* stripping, glob matching and key formatting are computed on characters. *)
(***************************************************************************)
EXTENDS Integers, Sequences, FiniteSets, TLC

VARIABLES
    args,                   \* arguments of the pure function under check
    result,                 \* what the pure function returned
    pc,                     \* position of the running operation
    file_filter,            \* PRReviewer.file_filter (a FileFilterConfig)
    line_positions          \* the LinePositionMap of the current patch

VARIABLES
    changed_files,          \* hosting: pull_request.get_files()
    review_comments,        \* hosting: review comments posted on the PR
    reviews,                \* hosting: reviews created by create_review
    run,                    \* which execution of run_review this is
    idx,                    \* index of the file the loop is at
    existing_comments,      \* run_review: existing_comments
    draft_review_comments,  \* run_review: draft_review_comments
    general_comments,       \* run_review: general_comments
    skipped_files,          \* run_review: skipped_files
    reviewed_files,         \* run_review: reviewed_files
    file_comments,          \* run_review: findings of the file still to place
    reviewer_calls          \* reviewer: file paths review_code was called with

pureVars == <<args, result>>
orchVars == <<changed_files, review_comments, reviews, run, idx,
              existing_comments, draft_review_comments, general_comments,
              skipped_files, reviewed_files, file_comments, reviewer_calls>>
vars == <<args, result, pc, file_filter, line_positions, changed_files,
          review_comments, reviews, run, idx, existing_comments,
          draft_review_comments, general_comments, skipped_files,
          reviewed_files, file_comments, reviewer_calls>>

None == "None"

\* The empty dict / a dict with no key.
EmptyDict == [k \in {} |-> 0]

\* All sequences over S of length at most n.
SeqUpTo(S, n) == UNION {[1..k -> S] : k \in 0..n}

(***************************************************************************)
(* Text helpers: str.split(','), str.strip(), fnmatch, str(int).           *)
(***************************************************************************)

\* Index of the first "," of s, 0 when there is none.
RECURSIVE FirstComma(_, _)
FirstComma(s, i) ==
    IF i > Len(s) THEN 0
    ELSE IF s[i] = "," THEN i
    ELSE FirstComma(s, i + 1)

\* s.split(','): always at least one piece; '' splits to [''].
RECURSIVE SplitComma(_)
SplitComma(s) ==
    LET c == FirstComma(s, 1)
    IN  IF c = 0 THEN <<s>>
        ELSE <<SubSeq(s, 1, c - 1)>> \o SplitComma(SubSeq(s, c + 1, Len(s)))

RECURSIVE LStrip(_)
LStrip(s) == IF s # <<>> /\ Head(s) = " " THEN LStrip(Tail(s)) ELSE s

RECURSIVE RStrip(_)
RStrip(s) ==
    IF s # <<>> /\ s[Len(s)] = " " THEN RStrip(SubSeq(s, 1, Len(s) - 1)) ELSE s

\* s.strip()
Strip(s) == RStrip(LStrip(s))

\* fnmatch(filename, pattern) on a case-sensitive platform, for patterns of
\* literal characters, "*" (any run of characters, "/" included) and "?".
RECURSIVE fnmatch(_, _)
fnmatch(filename, pattern) ==
    IF pattern = <<>> THEN filename = <<>>
    ELSE IF Head(pattern) = "*"
         THEN \/ fnmatch(filename, Tail(pattern))
              \/ filename # <<>> /\ fnmatch(Tail(filename), pattern)
    ELSE IF Head(pattern) = "?"
         THEN filename # <<>> /\ fnmatch(Tail(filename), Tail(pattern))
    ELSE /\ filename # <<>>
         /\ Head(filename) = Head(pattern)
         /\ fnmatch(Tail(filename), Tail(pattern))

Digit(d) == CASE d = 0 -> "0" [] d = 1 -> "1" [] d = 2 -> "2" [] d = 3 -> "3"
              [] d = 4 -> "4" [] d = 5 -> "5" [] d = 6 -> "6" [] d = 7 -> "7"
              [] d = 8 -> "8" [] d = 9 -> "9"

\* str(n) of a non-negative integer, as the f-strings format it.
RECURSIVE IntToStr(_)
IntToStr(n) ==
    IF n < 10 THEN <<Digit(n)>> ELSE IntToStr(n \div 10) \o <<Digit(n % 10)>>

(***************************************************************************)
(* FileFilterConfig                                                        *)
(***************************************************************************)

\* [p.strip() for p in patterns if p.strip()]
RECURSIVE CleanPatterns(_)
CleanPatterns(ps) ==
    IF ps = <<>> THEN <<>>
    ELSE (IF Strip(Head(ps)) # <<>> THEN <<Strip(Head(ps))>> ELSE <<>>)
         \o CleanPatterns(Tail(ps))

\* FileFilterConfig.from_env, given the two environment values ('' when unset).
from_env(whitelist_env, blacklist_env) ==
    LET whitelist == CleanPatterns(SplitComma(whitelist_env))
        blacklist == CleanPatterns(SplitComma(blacklist_env))
    IN  [whitelist_patterns |-> IF whitelist = <<>> THEN <<<<"*">>>> ELSE whitelist,
         blacklist_patterns |-> blacklist]

\* A plausible slip: the whitelist is consulted before the blacklist.
should_review_file_WhitelistFirst(config, filename) ==
    IF \E i \in 1..Len(config.whitelist_patterns) :
           fnmatch(filename, config.whitelist_patterns[i])
    THEN TRUE
    ELSE FALSE

\* FileFilterConfig.should_review_file: the two loops return at the first
\* matching pattern, the blacklist loop first.
should_review_file(config, filename) ==
    IF \E i \in 1..Len(config.blacklist_patterns) :
           fnmatch(filename, config.blacklist_patterns[i])
    THEN FALSE
    ELSE IF \E i \in 1..Len(config.whitelist_patterns) :
                fnmatch(filename, config.whitelist_patterns[i])
         THEN TRUE
         ELSE FALSE

(***************************************************************************)
(* Patch position mapper                                                   *)
(*                                                                         *)
(* A patch is the list patch.split('\n') of its lines; a patch text that   *)
(* ends with a newline has the empty line as its last element.  A line is  *)
(* known by how it starts (pfx): "@@", "-", "+", " ", "\" (the             *)
(* "\ No newline at end of file" marker) or "" (the empty line); match     *)
(* says whether the hunk-header pattern of line 116 matches it and         *)
(* newStart is the pattern's first group.  The hosting platform's "@@"     *)
(* lines always match the pattern.                                         *)
(***************************************************************************)

MaxPatchLen == 5
MaxNewStart == 2

HunkHeader(n) == [pfx |-> "@@", match |-> TRUE, newStart |-> n]
BodyLine(p) == [pfx |-> p, match |-> FALSE, newStart |-> 0]

PatchLines ==
    {HunkHeader(n) : n \in 1..MaxNewStart}
        \cup {BodyLine(p) : p \in {" ", "+", "-", "\\", ""}}

Patches == SeqUpTo(PatchLines, MaxPatchLen)

\* positions[key] = value on a dict.
DictPut(d, key, value) ==
    [k \in DOMAIN d \cup {key} |-> IF k = key THEN value ELSE d[k]]

\* A plausible slip: the position counter restarts at every hunk header.
ScanLine_RestartPosition(st, line) ==
    IF line.pfx = "@@" /\ line.match
    THEN [st EXCEPT !.in_hunk = TRUE, !.current_line = line.newStart,
                    !.position = 1]
    ELSE LET st1 == IF line.pfx = "@@" THEN [st EXCEPT !.in_hunk = TRUE] ELSE st
         IN  IF ~st1.in_hunk THEN st1
             ELSE IF line.pfx # "-"
                  THEN [st1 EXCEPT
                            !.position = @ + 1,
                            !.positions = DictPut(@, st1.current_line,
                                                  st1.position + 1),
                            !.current_line = @ + 1]
                  ELSE [st1 EXCEPT !.position = @ + 1]

\* One iteration of the loop of calculate_line_positions (lines 112-135).
ScanLine(st, line) ==
    IF line.pfx = "@@" /\ line.match
    THEN [st EXCEPT !.in_hunk = TRUE, !.current_line = line.newStart,
                    !.position = @ + 1]
    ELSE LET st1 == IF line.pfx = "@@" THEN [st EXCEPT !.in_hunk = TRUE] ELSE st
         IN  IF ~st1.in_hunk THEN st1
             ELSE IF line.pfx # "-"
                  THEN [st1 EXCEPT
                            !.position = @ + 1,
                            !.positions = DictPut(@, st1.current_line,
                                                  st1.position + 1),
                            !.current_line = @ + 1]
                  ELSE [st1 EXCEPT !.position = @ + 1]

RECURSIVE ScanLines(_, _, _)
ScanLines(lines, i, st) ==
    IF i > Len(lines) THEN st
    ELSE ScanLines(lines, i + 1, ScanLine(st, lines[i]))

\* PRReviewer.calculate_line_positions
calculate_line_positions(patch) ==
    ScanLines(patch, 1,
              [positions |-> EmptyDict, position |-> 0, current_line |-> 0,
               in_hunk |-> FALSE]).positions

(***************************************************************************)
(* find_closest_line                                                       *)
(***************************************************************************)

max_distance == 3

Abs(x) == IF x < 0 THEN -x ELSE x

\* sorted(positions.keys())
RECURSIVE SortedKeys(_)
SortedKeys(S) ==
    IF S = {} THEN <<>>
    ELSE LET m == CHOOSE x \in S : \A y \in S : x <= y
         IN  <<m>> \o SortedKeys(S \ {m})

\* A plausible slip: on a tie the later (larger) line wins.
RECURSIVE MinByDistance_LastWins(_, _, _, _)
MinByDistance_LastWins(lines, i, best, target_line) ==
    IF i > Len(lines) THEN best
    ELSE MinByDistance_LastWins(lines, i + 1,
             IF Abs(lines[i] - target_line) <= Abs(best - target_line)
             THEN lines[i] ELSE best,
             target_line)

\* min(available_lines, key=lambda x: abs(x - target_line)): the first element
\* with the least key.
RECURSIVE MinByDistance(_, _, _, _)
MinByDistance(lines, i, best, target_line) ==
    IF i > Len(lines) THEN best
    ELSE MinByDistance(lines, i + 1,
             IF Abs(lines[i] - target_line) < Abs(best - target_line)
             THEN lines[i] ELSE best,
             target_line)

\* An Optional[int]: <<>> is Python's None, <<n>> the integer n.
NoLine == <<>>
Line(n) == <<n>>

\* PRReviewer.find_closest_line with the default max_distance, for an integer
\* target_line.
find_closest_line(target_line, positions) ==
    IF target_line \in DOMAIN positions THEN Line(target_line)
    ELSE LET available_lines == SortedKeys(DOMAIN positions)
         IN  IF available_lines = <<>> THEN NoLine
             ELSE LET closest_line ==
                          MinByDistance(available_lines, 2, available_lines[1],
                                        target_line)
                  IN  IF Abs(closest_line - target_line) <= max_distance
                      THEN Line(closest_line)
                      ELSE NoLine

(***************************************************************************)
(* The pure functions, each applied to inputs drawn from bounded sets.     *)
(***************************************************************************)

\* The orchestrator's state while it is not running.
OrchIdle ==
    /\ changed_files = <<>>
    /\ review_comments = <<>>
    /\ reviews = <<>>
    /\ run = 0
    /\ idx = 0
    /\ existing_comments = EmptyDict
    /\ draft_review_comments = <<>>
    /\ general_comments = <<>>
    /\ skipped_files = <<>>
    /\ reviewed_files = <<>>
    /\ file_comments = <<>>
    /\ reviewer_calls = <<>>

\* ---- the file filter ----

MaxWhitelistEntries == 2
MaxBlacklistEntries == 1

\* Entries of a comma-separated pattern list: raw is the text between two
\* commas, pat the pattern it stands for (<<>>: a blank entry, which is dropped).
EnvEntries ==
    { [raw |-> <<>>, pat |-> <<>>],
      [raw |-> <<" ">>, pat |-> <<>>],
      [raw |-> <<"*">>, pat |-> <<"*">>],
      [raw |-> <<" ", "*", ".", "l">>, pat |-> <<"*", ".", "l">>],
      [raw |-> <<"a", "?", " ">>, pat |-> <<"a", "?">>] }

Filenames ==
    { <<"a">>, <<"a", "b">>, <<"p", ".", "l">>, <<"a", ".", "l">>,
      <<"s", "/", "a", "b">> }

\* The environment value: the entries joined by ",".
RECURSIVE JoinComma(_)
JoinComma(entries) ==
    IF Len(entries) = 1 THEN entries[1].raw
    ELSE entries[1].raw \o <<",">> \o JoinComma(Tail(entries))

FilterInit ==
    /\ args \in [whitelist : SeqUpTo(EnvEntries, MaxWhitelistEntries) \ {<<>>},
                 blacklist : SeqUpTo(EnvEntries, MaxBlacklistEntries) \ {<<>>},
                 filename : Filenames]
    /\ result = None
    /\ pc = "call"
    /\ file_filter = None
    /\ line_positions = EmptyDict
    /\ OrchIdle

FromEnv ==
    /\ pc = "call"
    /\ file_filter' = from_env(JoinComma(args.whitelist), JoinComma(args.blacklist))
    /\ pc' = "configured"
    /\ UNCHANGED <<args, result, line_positions, orchVars>>

ShouldReviewFile ==
    /\ pc = "configured"
    /\ result' = should_review_file(file_filter, args.filename)
    /\ pc' = "return"
    /\ UNCHANGED <<args, file_filter, line_positions, orchVars>>

FilterNext == FromEnv \/ ShouldReviewFile

SpecFilter == FilterInit /\ [][FilterNext]_vars

\* ---- calculate_line_positions ----

PatchInit ==
    /\ args \in [patch : Patches]
    /\ result = None
    /\ pc = "call"
    /\ file_filter = None
    /\ line_positions = EmptyDict
    /\ OrchIdle

CalculateLinePositions ==
    /\ pc = "call"
    /\ line_positions' = calculate_line_positions(args.patch)
    /\ pc' = "return"
    /\ UNCHANGED <<args, result, file_filter, orchVars>>

PatchNext == CalculateLinePositions

SpecPatch == PatchInit /\ [][PatchNext]_vars

\* ---- find_closest_line ----

MaxKey == 6
MaxTarget == 11

ClosestInit ==
    /\ args \in [target_line : 0..MaxTarget, keys : SUBSET (1..MaxKey)]
    /\ result = None
    /\ pc = "call"
    /\ file_filter = None
    /\ line_positions = EmptyDict
    /\ OrchIdle

\* The map handed to find_closest_line: its keys with some positions.
FindClosestLine ==
    /\ pc = "call"
    /\ line_positions' = [k \in args.keys |-> k + 1]
    /\ result' = find_closest_line(args.target_line, line_positions')
    /\ pc' = "return"
    /\ UNCHANGED <<args, file_filter, orchVars>>

ClosestNext == FindClosestLine

SpecClosest == ClosestInit /\ [][ClosestNext]_vars

(***************************************************************************)
(* Claims about the pure functions                                         *)
(***************************************************************************)

\* The patterns a comma-separated list stands for: its non-blank entries.
PatternsOf(entries) == {entries[i].pat : i \in 1..Len(entries)} \ {<<>>}

\* C5: should_review_file rejects a filename that some blacklist pattern
\* matches, whatever the whitelist says; otherwise it accepts the filename
\* exactly when some whitelist pattern matches it, an empty whitelist matching
\* everything.
C5_BlacklistThenWhitelist ==
    pc = "return" =>
        LET B == PatternsOf(args.blacklist)
            W == PatternsOf(args.whitelist)
        IN  IF \E p \in B : fnmatch(args.filename, p)
            THEN result = FALSE
            ELSE result = (W = {} \/ \E p \in W : fnmatch(args.filename, p))

\* Scenario D: blacklist *.l, whitelist *, filename p.l: rejected.
C5_Witness ==
    /\ pc = "return"
    /\ args.filename = <<"p", ".", "l">>
    /\ <<"*", ".", "l">> \in PatternsOf(args.blacklist)
    /\ <<"*">> \in PatternsOf(args.whitelist)
    /\ result = FALSE

\* C2: find_closest_line returns the target when it is a key; None when there
\* is no key or the nearest key is more than max_distance away; otherwise the
\* nearest key, the smaller one of two equally near keys.
C2_ClosestLine ==
    pc = "return" =>
        LET L == args.target_line
            K == args.keys
        IN  IF L \in K THEN result = Line(L)
            ELSE IF K = {} \/ \A k \in K : Abs(k - L) > 3 THEN result = NoLine
            ELSE \E r \in K :
                     /\ result = Line(r)
                     /\ \A k \in K :
                            /\ Abs(r - L) <= Abs(k - L)
                            /\ Abs(k - L) = Abs(r - L) => r <= k

\* A tie: the keys two below and two above the target, none nearer.
C2_Witness ==
    /\ pc = "return"
    /\ args.target_line = 4
    /\ args.keys = {2, 6}
    /\ result = Line(2)

\* --- reading a patch line by line, independently of the scanning loop ---

IsHeader(P, i) == P[i].pfx = "@@"

\* Index of the first hunk header, 0 when the patch has none.
FirstHeader(P) ==
    IF \E i \in 1..Len(P) : IsHeader(P, i)
    THEN CHOOSE i \in 1..Len(P) :
             IsHeader(P, i) /\ \A j \in 1..(i - 1) : ~IsHeader(P, j)
    ELSE 0

\* Index of the header of the hunk line i is in, 0 before the first header.
HeaderOf(P, i) ==
    IF \E h \in 1..(i - 1) : IsHeader(P, h)
    THEN CHOOSE h \in 1..(i - 1) :
             IsHeader(P, h) /\ \A j \in (h + 1)..(i - 1) : ~IsHeader(P, j)
    ELSE 0

\* The 1-based ordinal of line i counting the first hunk header as 1.
Ordinal(P, i) == i - FirstHeader(P) + 1

\* Line i is a non-deletion line inside a hunk.
NonDeletion(P, i) == HeaderOf(P, i) # 0 /\ ~IsHeader(P, i) /\ P[i].pfx # "-"

\* newStart of the enclosing header plus the non-deletion lines before line i.
LineOf(P, i) ==
    LET h == HeaderOf(P, i)
    IN  P[h].newStart + Cardinality({j \in (h + 1)..(i - 1) : P[j].pfx # "-"})

\* Every hunk starts at or after the line the hunk before it ended at.
HunksAscending(P) ==
    \A h \in 2..Len(P) :
        (IsHeader(P, h) /\ HeaderOf(P, h) # 0) =>
            P[h].newStart >= LineOf(P, h)

ScenarioA ==
    <<HunkHeader(1), BodyLine(" "), BodyLine("+"), BodyLine(" "), BodyLine(" ")>>

NewFileLine(P, i) == HeaderOf(P, i) # 0 /\ P[i].pfx \in {" ", "+"}

\* Its line number in the new file.
NewLineOf(P, i) ==
    LET h == HeaderOf(P, i)
    IN  P[h].newStart
            + Cardinality({j \in (h + 1)..(i - 1) : P[j].pfx \in {" ", "+"}})

\* A unified diff as the hosting platform gives it: it starts with a hunk
\* header, a "\ No newline at end of file" marker follows a context, added or
\* deleted line, the empty line comes only from a newline ending the text, and
\* the hunks do not overlap.
ValidPatch(P) ==
    /\ P # <<>>
    /\ IsHeader(P, 1)
    /\ \A i \in 1..Len(P) :
           P[i].pfx = "\\" => i > 1 /\ P[i - 1].pfx \in {" ", "+", "-"}
    /\ \A i \in 1..Len(P) : P[i].pfx = "" => i = Len(P)
    /\ \A h \in 2..Len(P) : IsHeader(P, h) => P[h].newStart >= NewLineOf(P, h)

\* C1: for a valid patch, every key of calculate_line_positions is the
\* new-file line number of a context or added line of the patch, and no entry
\* comes from a deletion line.
C1_KeysAreNewFileLines ==
    (pc = "return" /\ ValidPatch(args.patch)) =>
        LET P == args.patch
            M == line_positions
        IN  \A k \in DOMAIN M :
                /\ \E i \in 1..Len(P) : NewFileLine(P, i) /\ NewLineOf(P, i) = k
                /\ P[FirstHeader(P) + M[k] - 1].pfx # "-"

\* C1 without the marker line and the trailing newline (it holds there).
C1_WithoutMarkerLines ==
    (pc = "return" /\ ValidPatch(args.patch)
        /\ \A i \in 1..Len(args.patch) : args.patch[i].pfx \notin {"\\", ""}) =>
        LET P == args.patch
            M == line_positions
        IN  \A k \in DOMAIN M :
                /\ \E i \in 1..Len(P) : NewFileLine(P, i) /\ NewLineOf(P, i) = k
                /\ P[FirstHeader(P) + M[k] - 1].pfx # "-"

(***************************************************************************)
(* Review orchestrator: PRReviewer.run_review and its collaborators        *)
(***************************************************************************)

MaxFiles == 2
MaxRuns == 2

\* A finding as the reviewer's JSON gives it: has is the set of keys the
\* object holds; line_is_int is FALSE when "line" holds a string.
Finding(n, sugg) ==
    [has |-> IF sugg = None THEN {"line", "comment"}
             ELSE {"line", "comment", "suggestion"},
     line_is_int |-> TRUE, line |-> n, comment |-> "c", suggestion |-> sugg]
NoLineFinding == [has |-> {"comment"}, line_is_int |-> TRUE, line |-> 0,
                  comment |-> "c", suggestion |-> None]
NoCommentFinding == [has |-> {"line"}, line_is_int |-> TRUE, line |-> 2,
                     comment |-> None, suggestion |-> None]
StrLineFinding == [has |-> {"line", "comment"}, line_is_int |-> FALSE, line |-> 2,
                   comment |-> "c", suggestion |-> None]

\* What the reviewer's API call gives back: text that is no JSON, a JSON value
\* that is no array, an API error, or a JSON array of items.
Response(kind, items) == [kind |-> kind, items |-> items]

Responses ==
    { Response("garbage", <<>>), Response("nonarray", <<>>),
      Response("apierror", <<>>), Response("array", <<>>),
      Response("array", <<Finding(2, "s")>>),
      Response("array", <<Finding(6, None)>>),
      Response("array", <<Finding(50, "s")>>),
      Response("array", <<Finding(6, "s"), Finding(7, "s")>>),
      Response("array", <<Finding(2, "s"), Finding(50, None)>>),
      Response("array", <<NoLineFinding>>),
      Response("array", <<StrLineFinding>>),
      Response("array", <<NoCommentFinding>>),
      Response("array", <<Finding(50, "s"), NoLineFinding>>) }

\* file.patch of a file without a patch: None or '', both false.
NoPatchText == <<>>

\* A patch whose hunk only deletes (@@ -1,2 +0,0 @@): its map is empty.
PatchDeleteOnly == <<HunkHeader(0), BodyLine("-"), BodyLine("-")>>

\* A changed file as the hosting platform lists it, with what the collaborators
\* will answer for it: whether get_contents succeeds, and the reviewer's output.
ChangedFile(name, status, fetch_ok, patch, response) ==
    [filename |-> name, status |-> status, fetch_ok |-> fetch_ok,
     patch |-> patch, response |-> response]

FileProfiles(name) ==
    { ChangedFile(name, "removed", TRUE, NoPatchText, Response("array", <<>>)),
      ChangedFile(name, "modified", FALSE, ScenarioA,
                  Response("array", <<Finding(2, "s")>>)),
      ChangedFile(name, "added", TRUE, NoPatchText,
                  Response("array", <<Finding(2, "s")>>)),
      ChangedFile(name, "modified", TRUE, PatchDeleteOnly,
                  Response("array", <<Finding(2, "s")>>)),
      ChangedFile(name, "modified", TRUE, PatchDeleteOnly,
                  Response("array", <<StrLineFinding>>)) }
        \cup {ChangedFile(name, "modified", TRUE, ScenarioA, r) : r \in Responses}

LockFile == <<"c", ".", "l">>

ChangedFiles ==
    FileProfiles(<<"a">>) \cup FileProfiles(<<"b">>)
        \cup { ChangedFile(LockFile, "removed", TRUE, NoPatchText, Response("array", <<>>)),
               ChangedFile(LockFile, "modified", TRUE, ScenarioA,
                           Response("array", <<Finding(2, "s")>>)) }

\* The pull requests: up to MaxFiles changed files with distinct names.
PullRequests ==
    { fs \in SeqUpTo(ChangedFiles, MaxFiles) :
          \A i, j \in 1..Len(fs) : i # j => fs[i].filename # fs[j].filename }

\* The environment of the run: no whitelist, blacklist "*.l".
WhitelistEnv == <<>>
BlacklistEnv == <<"*", ".", "l">>

\* review_code: the parsed array, [] for anything else (lines 208-235).
review_code(response) ==
    IF response.kind = "array" THEN response.items ELSE <<>>

\* A plausible slip: the key is formatted differently from line 94.
comment_key_OtherFormat(path, position) == path \o <<"#">> \o IntToStr(position)

\* comment_key = f"{file.filename}:{position}" (line 298)
comment_key(path, position) == path \o <<":">> \o IntToStr(position)

\* key = f"{comment.path}:{comment.position}" (line 94)
existing_key(comment) == comment.path \o <<":">> \o IntToStr(comment.position)

\* get_existing_comments: the dict of the posted review comments.
RECURSIVE get_existing_comments(_)
get_existing_comments(comments) ==
    IF comments = <<>> THEN EmptyDict
    ELSE LET c == comments[Len(comments)]
             before == get_existing_comments(SubSeq(comments, 1, Len(comments) - 1))
         IN  DictPut(before, existing_key(c), c.body)

\* comment.get('suggestion', '')
SuggestionOf(comment) ==
    IF "suggestion" \in comment.has THEN comment.suggestion ELSE ""

\* A plausible slip: the nearest line is taken whatever its distance.
resolve_line_NoLimit(comment, positions) ==
    IF ~comment.line_is_int
    THEN [raised |-> DOMAIN positions # {}, line |-> NoLine]
    ELSE [raised |-> FALSE,
          line |-> IF comment.line \in DOMAIN positions THEN Line(comment.line)
                   ELSE IF DOMAIN positions = {} THEN NoLine
                   ELSE Line(MinByDistance(SortedKeys(DOMAIN positions), 2,
                                           SortedKeys(DOMAIN positions)[1],
                                           comment.line))]

\* find_closest_line(comment['line'], line_positions) as run_review calls it
\* (line 291).  A string is a key of no map of integers, and abs(x - "2")
\* raises TypeError unless the map is empty.
resolve_line(comment, positions) ==
    IF ~comment.line_is_int
    THEN [raised |-> DOMAIN positions # {}, line |-> NoLine]
    ELSE [raised |-> FALSE, line |-> find_closest_line(comment.line, positions)]

\* One iteration of the loop over file_comments (lines 283-313): what it does
\* with one finding.  kind is "raise" (KeyError or TypeError), "inline",
\* "duplicate" (resolved, its key already in existing_comments) or "general".
place_comment(comment, filename, positions, existing) ==
    IF "line" \notin comment.has THEN [kind |-> "raise"]
    ELSE LET mapped_line == resolve_line(comment, positions)
         IN  IF mapped_line.raised THEN [kind |-> "raise"]
             ELSE IF "comment" \notin comment.has THEN [kind |-> "raise"]
             ELSE IF mapped_line.line # NoLine
             THEN LET position == positions[mapped_line.line[1]]
                  IN  IF comment_key(filename, position) \notin DOMAIN existing
                      THEN [kind |-> "inline",
                            draft |-> [path |-> filename, position |-> position,
                                       body |-> [comment |-> comment.comment,
                                                 suggestion |-> SuggestionOf(comment)]]]
                      ELSE [kind |-> "duplicate"]
             ELSE [kind |-> "general",
                   body |-> [file |-> filename,
                             line |-> IF comment.line_is_int
                                      THEN IntToStr(comment.line) ELSE <<"s">>,
                             comment |-> comment.comment,
                             suggestion |-> SuggestionOf(comment)]]

\* The state after construction of PRReviewer, before run_review.
Init ==
    /\ changed_files \in PullRequests
    /\ review_comments = <<>>
    /\ reviews = <<>>
    /\ run = 0
    /\ pc = "start"
    /\ file_filter = from_env(WhitelistEnv, BlacklistEnv)
    /\ idx = 0
    /\ existing_comments = EmptyDict
    /\ draft_review_comments = <<>>
    /\ general_comments = <<>>
    /\ skipped_files = <<>>
    /\ reviewed_files = <<>>
    /\ file_comments = <<>>
    /\ line_positions = EmptyDict
    /\ reviewer_calls = <<>>
    /\ args = None
    /\ result = None

\* run_review, lines 240-248; a rerun is a new process on the same pull request.
StartRun ==
    /\ pc \in {"start", "done", "raised"}
    /\ run < MaxRuns
    /\ run' = run + 1
    /\ pc' = "loop"
    /\ idx' = 1
    /\ existing_comments' = get_existing_comments(review_comments)
    /\ draft_review_comments' = <<>>
    /\ general_comments' = <<>>
    /\ skipped_files' = <<>>
    /\ reviewed_files' = <<>>
    /\ file_comments' = <<>>
    /\ line_positions' = EmptyDict
    /\ reviewer_calls' = <<>>
    /\ UNCHANGED <<changed_files, review_comments, reviews, file_filter, pureVars>>

AtFile == pc = "loop" /\ idx <= Len(changed_files)
file == changed_files[idx]

NextFile ==
    /\ idx' = idx + 1
    /\ pc' = "loop"
    /\ file_comments' = <<>>

\* lines 251-253
SkipRemovedFile ==
    /\ AtFile
    /\ file.status = "removed"
    /\ NextFile
    /\ UNCHANGED <<changed_files, review_comments, reviews, run, existing_comments,
                   draft_review_comments, general_comments, skipped_files,
                   reviewed_files, reviewer_calls, line_positions, file_filter,
                   pureVars>>

\* lines 256-259
SkipFilteredFile ==
    /\ AtFile
    /\ file.status # "removed"
    /\ ~should_review_file(file_filter, file.filename)
    /\ skipped_files' = Append(skipped_files, file.filename)
    /\ NextFile
    /\ UNCHANGED <<changed_files, review_comments, reviews, run, existing_comments,
                   draft_review_comments, general_comments, reviewed_files,
                   reviewer_calls, line_positions, file_filter, pureVars>>

\* A plausible slip: the try/except of lines 265-269 is missing and the error
\* of get_contents ends the run.
ContentFetchFails_Raises ==
    /\ AtFile
    /\ file.status # "removed"
    /\ should_review_file(file_filter, file.filename)
    /\ ~file.fetch_ok
    /\ reviewed_files' = Append(reviewed_files, file.filename)
    /\ pc' = "raised"
    /\ UNCHANGED <<changed_files, review_comments, reviews, run, existing_comments,
                   draft_review_comments, general_comments, skipped_files,
                   reviewer_calls, line_positions, file_filter, pureVars, idx,
                   file_comments>>

\* lines 261-269: get_contents raises; the error is logged and the loop
\* continues.
ContentFetchFails ==
    /\ AtFile
    /\ file.status # "removed"
    /\ should_review_file(file_filter, file.filename)
    /\ ~file.fetch_ok
    /\ reviewed_files' = Append(reviewed_files, file.filename)
    /\ NextFile
    /\ UNCHANGED <<changed_files, review_comments, reviews, run, existing_comments,
                   draft_review_comments, general_comments, skipped_files,
                   reviewer_calls, line_positions, file_filter, pureVars>>

\* lines 261-277: the content is fetched, the file has no patch.
NoPatch ==
    /\ AtFile
    /\ file.status # "removed"
    /\ should_review_file(file_filter, file.filename)
    /\ file.fetch_ok
    /\ file.patch = NoPatchText
    /\ reviewed_files' = Append(reviewed_files, file.filename)
    /\ NextFile
    /\ UNCHANGED <<changed_files, review_comments, reviews, run, existing_comments,
                   draft_review_comments, general_comments, skipped_files,
                   reviewer_calls, line_positions, file_filter, pureVars>>

\* lines 261-280: the map is computed and the reviewer is called.
ReviewFile ==
    /\ AtFile
    /\ file.status # "removed"
    /\ should_review_file(file_filter, file.filename)
    /\ file.fetch_ok
    /\ file.patch # NoPatchText
    /\ reviewed_files' = Append(reviewed_files, file.filename)
    /\ line_positions' = calculate_line_positions(file.patch)
    /\ reviewer_calls' = Append(reviewer_calls, file.filename)
    /\ LET comments == review_code(file.response)
       IN  IF comments = <<>>
           THEN NextFile
           ELSE /\ file_comments' = comments
                /\ pc' = "findings"
                /\ idx' = idx
    /\ UNCHANGED <<changed_files, review_comments, reviews, run, existing_comments,
                   draft_review_comments, general_comments, skipped_files,
                   file_filter, pureVars>>

\* lines 283-313, one finding.
PlaceComment ==
    /\ pc = "findings"
    /\ LET placed == place_comment(Head(file_comments), file.filename,
                                   calculate_line_positions(file.patch),
                                   existing_comments)
       IN  /\ draft_review_comments' =
                  IF placed.kind = "inline"
                  THEN Append(draft_review_comments, placed.draft)
                  ELSE draft_review_comments
           /\ general_comments' =
                  IF placed.kind = "general"
                  THEN Append(general_comments, placed.body)
                  ELSE general_comments
           /\ IF placed.kind = "raise"
              THEN pc' = "raised" /\ UNCHANGED <<idx, file_comments>>
              ELSE IF Tail(file_comments) = <<>>
                   THEN NextFile
                   ELSE /\ file_comments' = Tail(file_comments)
                        /\ UNCHANGED <<pc, idx>>
    /\ UNCHANGED <<changed_files, review_comments, reviews, run, existing_comments,
                   skipped_files, reviewed_files, reviewer_calls, line_positions,
                   file_filter, pureVars>>

AfterLoop == pc = "loop" /\ idx > Len(changed_files)

SomethingToSay ==
    draft_review_comments # <<>> \/ general_comments # <<>> \/ skipped_files # <<>>

\* The aggregate body of lines 318-336, by its parts.
review_body ==
    [reviewed |-> reviewed_files,
     skipped |-> skipped_files,
     found |-> Len(draft_review_comments),
     great_job |-> draft_review_comments = <<>>,
     additional |-> general_comments]

\* lines 315-345: the review is created; the hosting platform posts its
\* inline comments on the pull request.
CreateReview ==
    /\ AfterLoop
    /\ SomethingToSay
    /\ reviews' = Append(reviews, [comments |-> draft_review_comments,
                                   body |-> review_body,
                                   event |-> "COMMENT",
                                   run |-> run])
    /\ review_comments' =
           review_comments
               \o [i \in 1..Len(draft_review_comments) |->
                       [path |-> draft_review_comments[i].path,
                        position |-> draft_review_comments[i].position,
                        body |-> draft_review_comments[i].body,
                        run |-> run]]
    /\ pc' = "done"
    /\ UNCHANGED <<changed_files, run, idx, existing_comments,
                   draft_review_comments, general_comments, skipped_files,
                   reviewed_files, file_comments, reviewer_calls, line_positions,
                   file_filter, pureVars>>

\* lines 346-347
NoReview ==
    /\ AfterLoop
    /\ ~SomethingToSay
    /\ pc' = "done"
    /\ UNCHANGED <<changed_files, review_comments, reviews, run, idx,
                   existing_comments, draft_review_comments, general_comments,
                   skipped_files, reviewed_files, file_comments, reviewer_calls,
                   line_positions, file_filter, pureVars>>

Next ==
    \/ StartRun
    \/ SkipRemovedFile
    \/ SkipFilteredFile
    \/ ContentFetchFails
    \/ NoPatch
    \/ ReviewFile
    \/ PlaceComment
    \/ CreateReview
    \/ NoReview

Spec == Init /\ [][Next]_vars

(***************************************************************************)
(* Claims about the orchestrator                                           *)
(***************************************************************************)

\* The review comments posted by the runs before this one.
PostedBefore == {j \in 1..Len(review_comments) : review_comments[j].run < run}

\* C3: in a rerun on the unchanged pull request with the unchanged reviewer
\* output, whose existing-comment index holds every inline comment posted
\* before, no comment of the outgoing inline batch has the path and position
\* of a comment already posted.
C3_NoDuplicateInlineOnRerun ==
    (\A j \in PostedBefore :
         existing_key(review_comments[j]) \in DOMAIN existing_comments) =>
        \A i \in 1..Len(draft_review_comments) :
            \A j \in PostedBefore :
                ~ /\ draft_review_comments[i].path = review_comments[j].path
                  /\ draft_review_comments[i].position = review_comments[j].position

\* The second run is over; the first posted inline comments and the second
\* called the reviewer again and queued none.
C3_Witness ==
    /\ run = 2
    /\ pc = "done"
    /\ \E j \in 1..Len(review_comments) : review_comments[j].run = 1
    /\ reviewer_calls # <<>>
    /\ draft_review_comments = <<>>

\* The reviews this run has created.
ReviewsOfRun == {i \in 1..Len(reviews) : reviews[i].run = run}

\* C4: in every run the review is created only after every changed file has
\* been processed and at most once; it is created exactly once, as a COMMENT
\* with the whole inline batch, when there is an outgoing inline comment, a
\* general comment or a filter-skipped file, and not at all otherwise.
C4_OneReviewAtTheEnd ==
    /\ Cardinality(ReviewsOfRun) <= 1
    /\ \A i \in ReviewsOfRun :
           /\ idx > Len(changed_files)
           /\ reviews[i].event = "COMMENT"
           /\ reviews[i].comments = draft_review_comments
    /\ pc \in {"done", "raised"} =>
           (Cardinality(ReviewsOfRun) = 1 <=> SomethingToSay)

\* C4 for the runs that reach the end of the file loop (it holds there).
C4_WhenTheLoopCompletes ==
    /\ Cardinality(ReviewsOfRun) <= 1
    /\ \A i \in ReviewsOfRun :
           /\ idx > Len(changed_files)
           /\ reviews[i].event = "COMMENT"
           /\ reviews[i].comments = draft_review_comments
    /\ pc = "done" => (Cardinality(ReviewsOfRun) = 1 <=> SomethingToSay)

\* A reviewer item that is an object with an integer line and a comment.
ValidItem(item) == {"line", "comment"} \subseteq item.has /\ item.line_is_int

\* A reviewer response that is a JSON array of such objects.
ValidResponse(response) ==
    /\ response.kind = "array"
    /\ \A i \in 1..Len(response.items) : ValidItem(response.items[i])

\* What file name has contributed to the two outgoing lists.
Contributes(name) ==
    \/ \E i \in 1..Len(draft_review_comments) : draft_review_comments[i].path = name
    \/ \E i \in 1..Len(general_comments) : general_comments[i].file = name

\* C6: a file whose reviewer response is not a JSON array of objects with an
\* integer line and a comment contributes no finding, and run_review goes on
\* without raising.
C6_InvalidResponseIsNoFindings ==
    /\ pc # "raised"
    /\ \A i \in 1..Len(changed_files) :
           ~ValidResponse(changed_files[i].response) =>
               ~Contributes(changed_files[i].filename)

\* C6 for the responses review_code itself rejects: text that is no JSON, a
\* JSON value that is no array, an API error (it holds there).
C6_NotAnArray ==
    \A i \in 1..Len(changed_files) :
        changed_files[i].response.kind # "array" =>
            /\ ~Contributes(changed_files[i].filename)
            /\ ~(pc = "raised" /\ idx = i)

\* The file the loop is at passed the status check and the filter, and its
\* content fetch fails or it has no patch.
PerFileError(f) ==
    /\ f.status # "removed"
    /\ ~fnmatch(f.filename, BlacklistEnv)
    /\ ~f.fetch_ok \/ f.patch = NoPatchText

\* C7: when the content fetch of a file fails or the file has no patch, the
\* reviewer is not called for it, it adds no inline or general comment, and
\* the loop goes on with the next file instead of raising.
C7_PerFileErrorGoesOn ==
    [][(AtFile /\ PerFileError(file)) =>
           /\ idx' = idx + 1
           /\ pc' = "loop"
           /\ reviewer_calls' = reviewer_calls
           /\ draft_review_comments' = draft_review_comments
           /\ general_comments' = general_comments]_vars

\* A run that is over, in which the file after one with a per-file error was
\* given to the reviewer.
C7_Witness ==
    /\ pc = "done"
    /\ \E i \in 1..Len(changed_files) : \E j \in (i + 1)..Len(changed_files) :
           /\ PerFileError(changed_files[i])
           /\ ~Contributes(changed_files[i].filename)
           /\ \E k \in 1..Len(reviewer_calls) :
                  reviewer_calls[k] = changed_files[j].filename

\* C9: the step that places a finding either appends it to the general
\* comments and not to the inline batch, when no key of the file's map is
\* within distance 3 of its line; or leaves the general comments alone, and if
\* it appends to the inline batch, the position is the map's value at a key
\* within distance 3 and the key "{path}:{position}" is not in the
\* existing-comment index.
C9_PlacedOneWay ==
    [][(pc = "findings" /\ ValidItem(Head(file_comments))) =>
           LET L == Head(file_comments).line
               M == line_positions
               Near == {k \in DOMAIN M : Abs(k - L) <= 3}
           IN  IF Near = {}
               THEN /\ Len(general_comments') = Len(general_comments) + 1
                    /\ SubSeq(general_comments', 1, Len(general_comments))
                           = general_comments
                    /\ general_comments'[Len(general_comments')].file = file.filename
                    /\ draft_review_comments' = draft_review_comments
               ELSE /\ general_comments' = general_comments
                    /\ \/ draft_review_comments' = draft_review_comments
                       \/ \E k \in Near :
                              /\ draft_review_comments' =
                                     Append(draft_review_comments,
                                            draft_review_comments'[
                                                Len(draft_review_comments')])
                              /\ draft_review_comments'[
                                     Len(draft_review_comments')].path = file.filename
                              /\ draft_review_comments'[
                                     Len(draft_review_comments')].position = M[k]
                              /\ (file.filename \o <<":">> \o IntToStr(M[k]))
                                     \notin DOMAIN existing_comments]_vars

\* A run that has placed one finding inline and another as a general comment.
C9_Witness ==
    /\ pc = "done"
    /\ draft_review_comments # <<>>
    /\ general_comments # <<>>

\* The changed files the filter rejects.
FilterRejected(f) == f.status # "removed" /\ fnmatch(f.filename, BlacklistEnv)

NamesOf(fs) == [i \in 1..Len(fs) |-> fs[i].filename]

\* C10: at the end of the file loop reviewed_files holds exactly the files the
\* reviewer was called with, in order, so that a file whose content fetch
\* failed or that has no patch is not listed as reviewed; skipped_files holds
\* the filter-rejected files and only those.
C10_ReviewedAreTheReviewerCalls ==
    (AfterLoop \/ pc = "done") =>
        /\ reviewed_files = reviewer_calls
        /\ skipped_files = NamesOf(SelectSeq(changed_files, FilterRejected))

PassedFilter(f) == f.status # "removed" /\ ~fnmatch(f.filename, BlacklistEnv)

\* What the code keeps instead: reviewed_files holds every file that passed
\* the status check and the filter, whether or not the reviewer saw it.
C10_ReviewedAreTheFilterPassed ==
    (AfterLoop \/ pc = "done") =>
        /\ reviewed_files = NamesOf(SelectSeq(changed_files, PassedFilter))
        /\ skipped_files = NamesOf(SelectSeq(changed_files, FilterRejected))

====
